---- MODULE Spec2Model ----
(***************************************************************************)
(* DriveScoreLogger: the on-chain ledger of encrypted driving scores       *)
(* (contract source in src/PROJECT_DESCRIPTION.md, lines 164-408).         *)
(*                                                                         *)
(* Every external function of the contract is one action.  A transaction   *)
(* that reverts leaves the storage as it was (EVM semantics); only the     *)
(* observer variable `ret` records that the call was made and how it       *)
(* ended.  The FHE coprocessor is modelled by `ciphertexts`: handle h >= 1 *)
(* is the h-th ciphertext ever created, with its plaintext and its ACL;    *)
(* handle 0 is the uninitialised euint32.                                  *)
(***************************************************************************)
EXTENDS Integers, Sequences, FiniteSets, TLC

\* ------------------------------------------------------------------ bounds
MaxSubmissions == 2
GenesisTime == 1000000
DeepSubmissions == 52
DeepVaried == 2
MaxPairSubmissions == 2
MaxClientSubmissions == 2
MaxClientRuns == 2
MaxPageSubmissions == 2

\* ------------------------------------------------------- program constants
MAX_HISTORY_RECORDS == 50
DAILY_SUBMIT_INTERVAL == 86400
GRACE_SECONDS == 3600
MAX_DISTANCE_CATEGORY == 3
UINT16_MAX == 65535
HALF_WORD == 65536

\* ------------------------------------------------------------- input sets
Deployer == "admin"
Principals == {"admin", "alice"}
Ledger == "DriveScoreLogger"
Scores == {40, 100}
Categories == {3, 4}
\* Block timestamps explored, as offsets from GenesisTime.  Their differences
\* are half a day (43200), exactly the 24 h cadence (86400), exactly the 25 h
\* grace limit (90000 = 176400 - 86400) and more than that.
TimeOffsets == {0, 43200, 86400, 176400}
BlockTimes == {GenesisTime + o : o \in TimeOffsets}

VARIABLES
    userDataMap,        \* mapping(address => UserData)
    isTestModeEnabled,  \* bool
    contractAdmin,      \* address
    now,                \* block.timestamp
    ciphertexts,        \* the coprocessor: handle -> [plain, acl]
    events,             \* the events emitted by the latest transaction
    ret,                \* the latest call and its outcome
    accepted,           \* per principal, the accepted submissions in order
    runs,               \* per page of the frontend, its decryption flow
    signRequests,       \* the signature requests put to the wallet, in order
    decryptRequests,    \* per page, the userDecrypt requests of its flow, in order
    started,            \* the number of flows started so far
    wallet,             \* useWallet: accounts, signer, isConnected
    dashboard,          \* the Dashboard's `stats`, isDecrypted and pending load
    submit              \* the Submit page: its inputs, message and flow

vars == <<userDataMap, isTestModeEnabled, contractAdmin, now, ciphertexts,
          events, ret, accepted, runs, signRequests, decryptRequests,
          started, wallet, dashboard, submit>>

clientVars == <<runs, signRequests, decryptRequests, started, wallet,
                dashboard>>

ledgerVars == <<userDataMap, isTestModeEnabled, contractAdmin, ciphertexts>>

Min(a, b) == IF a < b THEN a ELSE b

\* ---------------------------------------------------------------- storage
\* struct DriveRecord; the all-zero record is what `delete` leaves behind.
DriveRecord(h, t, c) ==
    [encryptedScore |-> h, recordTime |-> t, distanceCategory |-> c]

ZeroRecord == DriveRecord(0, 0, 0)

\* struct UserData in its default (never written) state.
EmptyUserData ==
    [encryptedTotalScore |-> 0,
     totalRecords |-> 0,
     lastRecordTime |-> 0,
     continuousDays |-> 0,
     encryptedLastScore |-> 0,
     encryptedScoreChange |-> 0,
     historyRecords |-> <<>>]

\* ------------------------------------------------------- FHE capability
\* A euint32 plaintext is kept as its two 16-bit halves <<high, low>>, so that
\* the arithmetic below is exactly arithmetic modulo 2^32.
U32(n) == <<n \div HALF_WORD, n % HALF_WORD>>

\* The plaintext behind a handle; an uninitialised operand counts as 0.
Plain(cts, h) == IF h = 0 THEN U32(0) ELSE cts[h].plain

NewCiphertext(cts, v) == Append(cts, [plain |-> v, acl |-> {}])

\* FHE.add / FHE.sub on euint32: wrapping arithmetic modulo 2^32.
AddWrapOverwrite(a, b) == b

AddWrap(a, b) ==
    LET lo == a[2] + b[2]
        hi == a[1] + b[1] + (lo \div HALF_WORD)
    IN  <<hi % HALF_WORD, lo % HALF_WORD>>

SubWrap(a, b) ==
    LET lo == a[2] - b[2]
        hi == a[1] - b[1] - (IF lo < 0 THEN 1 ELSE 0)
    IN  <<(hi + HALF_WORD) % HALF_WORD, (lo + HALF_WORD) % HALF_WORD>>

AllowAdminToo(cts, h, who) ==
    IF h = 0 THEN cts
    ELSE [cts EXCEPT ![h].acl = @ \cup {Ledger, who, Deployer}]

\* FHE.allowThis(h) followed by FHE.allow(h, who).
Allow(cts, h, who) ==
    IF h = 0 THEN cts
    ELSE [cts EXCEPT ![h].acl = @ \cup {Ledger, who}]

\* userDecrypt of one handle under an authorization signed by `who`: the
\* plaintext if both `who` and the contract are on the handle's ACL, and no
\* plaintext (Denied) otherwise.
Denied == <<>>
UserDecrypt(cts, h, who) ==
    IF h \in 1..Len(cts) /\ who \in cts[h].acl /\ Ledger \in cts[h].acl
    THEN cts[h].plain
    ELSE Denied

\* -------------------------------------------------------- observer records
NoCall == [op |-> "none", sender |-> "none", category |-> 0, err |-> ""]

Call(op, sender, category, err) ==
    [op |-> op, sender |-> sender, category |-> category, err |-> err]

ErrInvalidProof == "InvalidProof"
ErrInvalidCategory == "Invalid distance category"
ErrTooSoon == "Only one submission per day"
ErrOverflow == "Panic(0x11)"
ErrOnlyAdmin == "Only admin"
ErrTestModeOff == "Test mode not enabled"
ErrInsufficient == "Insufficient records for trend"
ErrNoRecords == "No records"
ErrIndex == "Index out of bounds"

RECURSIVE SumRecords(_, _)
SumRecords(map, S) ==
    IF S = {} THEN 0
    ELSE LET p == CHOOSE x \in S : TRUE
         IN  map[p].totalRecords + SumRecords(map, S \ {p})

\* ------------------------------------------------------- frontend state
\* The three pages that decrypt, the account the wallet exposes when the
\* application loads, and the value of a variable that holds no authorization
\* (null), no score (null) or no signer (undefined).
Pages == {"Dashboard", "Analytics", "History"}
WalletUser == "alice"
Null == [keyPair |-> 0, issuedAt |-> 0]
NoScore == <<>>
NoSigner == "none"

\* One page: where its running flow stands (pc), the storage instance and the `sig` of that flow, the
\* signature request it awaits, the values it has to decrypt and the results
\* it has so far.
IdleRun ==
    [pc |-> "idle", user |-> NoSigner, storage |-> Null, sig |-> Null, req |-> 0,
     items |-> <<>>, shown |-> <<>>]

\* useWallet once checkConnection has found the account the wallet exposes.
ConnectedWallet(account) ==
    [accounts |-> <<account>>, signer |-> account, isConnected |-> TRUE]

\* The Dashboard's state as useState creates it; `loading` holds the
\* addresses whose statistics a pending loadBasicStats has asked for.
InitialStats ==
    [totalRecords |-> 0, averageScore |-> NoScore, scoreTrend |-> NoScore,
     isDecrypted |-> FALSE, loading |-> {}]

\* The Submit page as useState creates it, with the submitScore calls in
\* progress (flows) and the scores handed to the encryption so far.
NoMessage == [type |-> "none", text |-> ""]
InitialSubmit ==
    [score |-> 85, distanceCategory |-> 1, isSubmitting |-> FALSE,
     message |-> NoMessage, flows |-> <<>>, encrypted |-> {}]

Init ==
    /\ runs = [page \in Pages |-> IdleRun]
    /\ signRequests = <<>>
    /\ started = 0
    /\ decryptRequests = [page \in Pages |-> <<>>]
    /\ wallet = ConnectedWallet(WalletUser)
    /\ dashboard = InitialStats
    /\ submit = InitialSubmit
    /\ userDataMap = [p \in Principals |-> EmptyUserData]
    /\ isTestModeEnabled = FALSE
    /\ contractAdmin = Deployer
    /\ now = GenesisTime
    /\ ciphertexts = <<>>
    /\ events = <<>>
    /\ ret = NoCall
    /\ accepted = [p \in Principals |-> <<>>]

\* ------------------------------------------------------ recordDriveScore
\* Step 3: the daily cadence check (skipped in test mode and before the
\* first submission).
CadenceOkStrict(ud, testMode, t) ==
    ~(ud.lastRecordTime > 0 /\ ~testMode)
    \/ t - ud.lastRecordTime > DAILY_SUBMIT_INTERVAL

CadenceOkInverted(ud, testMode, t) ==
    ~(ud.lastRecordTime > 0 /\ testMode)
    \/ t - ud.lastRecordTime >= DAILY_SUBMIT_INTERVAL

CadenceOkNoBypass(ud, testMode, t) ==
    ~(ud.lastRecordTime > 0)
    \/ t - ud.lastRecordTime >= DAILY_SUBMIT_INTERVAL

CadenceOk(ud, testMode, t) ==
    ~(ud.lastRecordTime > 0 /\ ~testMode)
    \/ t - ud.lastRecordTime >= DAILY_SUBMIT_INTERVAL

\* Step 7: the new value of continuousDays.
NextContinuousDaysInclusive(ud, t) ==
    IF ud.lastRecordTime = 0 THEN 1
    ELSE IF t - ud.lastRecordTime <= DAILY_SUBMIT_INTERVAL + GRACE_SECONDS
         THEN ud.continuousDays + 1
         ELSE 1

NextContinuousDaysZeroReset(ud, t) ==
    IF ud.lastRecordTime = 0 THEN 1
    ELSE IF t - ud.lastRecordTime < DAILY_SUBMIT_INTERVAL + GRACE_SECONDS
         THEN ud.continuousDays + 1
         ELSE 0

\* The streak counted in elapsed days once the grace window is missed.
NextContinuousDaysPerElapsedDay(ud, t) ==
    IF ud.lastRecordTime = 0 THEN 1
    ELSE IF t - ud.lastRecordTime < DAILY_SUBMIT_INTERVAL + GRACE_SECONDS
         THEN ud.continuousDays + 1
         ELSE ud.continuousDays + (t - ud.lastRecordTime) \div DAILY_SUBMIT_INTERVAL

NextContinuousDays(ud, t) ==
    IF ud.lastRecordTime = 0 THEN 1
    ELSE IF t - ud.lastRecordTime < DAILY_SUBMIT_INTERVAL + GRACE_SECONDS
         THEN ud.continuousDays + 1
         ELSE 1

\* Steps 8-9: push the record, then `delete` the leading entries in excess
\* of MAX_HISTORY_RECORDS.  `delete a[i]` zeroes the slot; the array keeps
\* its length.
PushAndPrune(hist, rec) ==
    LET pushed == Append(hist, rec)
        excess == Len(pushed) - MAX_HISTORY_RECORDS
    IN  [i \in 1..Len(pushed) |-> IF i <= excess THEN ZeroRecord ELSE pushed[i]]

\* The revert reason of recordDriveScore in the current state, "" if none.
\* (continuousDays++ is checked uint16 arithmetic; totalRecords++ is checked
\* uint32 arithmetic, whose limit lies beyond every count explored here.)
SubmitErrorInCadenceFirst(map, testMode, t, sender, proofOk, distanceCategory) ==
    LET ud == map[sender]
    IN  IF ~proofOk THEN ErrInvalidProof
        ELSE IF ~CadenceOk(ud, testMode, t) THEN ErrTooSoon
        ELSE IF distanceCategory > MAX_DISTANCE_CATEGORY THEN ErrInvalidCategory
        ELSE IF NextContinuousDays(ud, t) > UINT16_MAX THEN ErrOverflow
        ELSE ""

SubmitErrorIn(map, testMode, t, sender, proofOk, distanceCategory) ==
    LET ud == map[sender]
    IN  IF ~proofOk THEN ErrInvalidProof
        ELSE IF distanceCategory > MAX_DISTANCE_CATEGORY THEN ErrInvalidCategory
        ELSE IF ~CadenceOk(ud, testMode, t) THEN ErrTooSoon
        ELSE IF NextContinuousDays(ud, t) > UINT16_MAX THEN ErrOverflow
        ELSE ""

SubmitError(sender, proofOk, distanceCategory) ==
    SubmitErrorIn(userDataMap, isTestModeEnabled, now, sender, proofOk,
                  distanceCategory)

\* Steps 4-11 applied to `ud` with the write of lastRecordTime lost, as when a
\* second call of the same principal overlaps the first.
ApplySubmissionStaleClock(ud, cts, sender, score, distanceCategory, t) ==
    LET c1 == NewCiphertext(cts, U32(score))
        encryptedValue == Len(c1)
        first == ud.totalRecords = 0
        c2 == IF first THEN c1
              ELSE NewCiphertext(c1, AddWrap(Plain(c1, ud.encryptedTotalScore),
                                             Plain(c1, encryptedValue)))
        total == IF first THEN encryptedValue ELSE Len(c2)
        c3 == IF first
              THEN NewCiphertext(c2, SubWrap(Plain(c2, encryptedValue),
                                             Plain(c2, encryptedValue)))
              ELSE NewCiphertext(c2, SubWrap(Plain(c2, encryptedValue),
                                             Plain(c2, ud.encryptedLastScore)))
        change == Len(c3)
        lastScore == encryptedValue
        c4 == Allow(Allow(Allow(Allow(c3, encryptedValue, sender), total, sender),
                          change, sender),
                    lastScore, sender)
    IN  [data |->
            [encryptedTotalScore |-> total,
             totalRecords |-> ud.totalRecords + 1,
             lastRecordTime |-> ud.lastRecordTime,
             continuousDays |-> NextContinuousDays(ud, t),
             encryptedLastScore |-> lastScore,
             encryptedScoreChange |-> change,
             historyRecords |->
                 PushAndPrune(ud.historyRecords,
                              DriveRecord(encryptedValue, t, distanceCategory))],
         cts |-> c4]

\* ApplySubmission with the grants issued before the total, the delta and the
\* last score are reassigned, i.e. on the handles the submission supersedes.
ApplySubmissionGrantsFirst(ud, cts, sender, score, distanceCategory, t) ==
    LET c1 == NewCiphertext(cts, U32(score))
        encryptedValue == Len(c1)
        first == ud.totalRecords = 0
        c2 == IF first THEN c1
              ELSE NewCiphertext(c1, AddWrap(Plain(c1, ud.encryptedTotalScore),
                                             Plain(c1, encryptedValue)))
        total == IF first THEN encryptedValue ELSE Len(c2)
        c3 == IF first
              THEN NewCiphertext(c2, SubWrap(Plain(c2, encryptedValue),
                                             Plain(c2, encryptedValue)))
              ELSE NewCiphertext(c2, SubWrap(Plain(c2, encryptedValue),
                                             Plain(c2, ud.encryptedLastScore)))
        change == Len(c3)
        lastScore == encryptedValue
        c4 == Allow(Allow(Allow(Allow(c3, encryptedValue, sender),
                                ud.encryptedTotalScore, sender),
                          ud.encryptedScoreChange, sender),
                    ud.encryptedLastScore, sender)
    IN  [data |->
            [encryptedTotalScore |-> total,
             totalRecords |-> ud.totalRecords + 1,
             lastRecordTime |-> t,
             continuousDays |-> NextContinuousDays(ud, t),
             encryptedLastScore |-> lastScore,
             encryptedScoreChange |-> change,
             historyRecords |->
                 PushAndPrune(ud.historyRecords,
                              DriveRecord(encryptedValue, t, distanceCategory))],
         cts |-> c4]

\* Steps 4-11 applied to `ud`: the new UserData and the new coprocessor state.
ApplySubmission(ud, cts, sender, score, distanceCategory, t) ==
    LET c1 == NewCiphertext(cts, U32(score))
        encryptedValue == Len(c1)
        first == ud.totalRecords = 0
        c2 == IF first THEN c1
              ELSE NewCiphertext(c1, AddWrap(Plain(c1, ud.encryptedTotalScore),
                                             Plain(c1, encryptedValue)))
        total == IF first THEN encryptedValue ELSE Len(c2)
        c3 == IF first
              THEN NewCiphertext(c2, SubWrap(Plain(c2, encryptedValue),
                                             Plain(c2, encryptedValue)))
              ELSE NewCiphertext(c2, SubWrap(Plain(c2, encryptedValue),
                                             Plain(c2, ud.encryptedLastScore)))
        change == Len(c3)
        lastScore == encryptedValue
        c4 == Allow(Allow(Allow(Allow(c3, encryptedValue, sender), total, sender),
                          change, sender),
                    lastScore, sender)
    IN  [data |->
            [encryptedTotalScore |-> total,
             totalRecords |-> ud.totalRecords + 1,
             lastRecordTime |-> t,
             continuousDays |-> NextContinuousDays(ud, t),
             encryptedLastScore |-> lastScore,
             encryptedScoreChange |-> change,
             historyRecords |->
                 PushAndPrune(ud.historyRecords,
                              DriveRecord(encryptedValue, t, distanceCategory))],
         cts |-> c4]

SubmissionEventsFromFirstDay(sender, data, distanceCategory, t) ==
    <<[name |-> "ScoreRecorded", user |-> sender, time |-> t,
       category |-> distanceCategory, days |-> 0]>>
    \o (IF data.continuousDays >= 1
        THEN <<[name |-> "ContinuousDaysChanged", user |-> sender, time |-> 0,
                category |-> 0, days |-> data.continuousDays]>>
        ELSE <<>>)

SubmissionEvents(sender, data, distanceCategory, t) ==
    <<[name |-> "ScoreRecorded", user |-> sender, time |-> t,
       category |-> distanceCategory, days |-> 0]>>
    \o (IF data.continuousDays > 1
        THEN <<[name |-> "ContinuousDaysChanged", user |-> sender, time |-> 0,
                category |-> 0, days |-> data.continuousDays]>>
        ELSE <<>>)

\* One recordDriveScore transaction as the ledger executes it, whoever sent
\* it: it reverts as a whole or writes all of its effects.
Transaction(sender, score, proofOk, distanceCategory) ==
    LET err == SubmitError(sender, proofOk, distanceCategory)
        ud == userDataMap[sender]
        new == ApplySubmission(ud, ciphertexts, sender, score, distanceCategory, now)
    IN  /\ ret' = Call("recordDriveScore", sender, distanceCategory, err)
        /\ IF err # ""
           THEN /\ events' = <<>>
                /\ UNCHANGED <<userDataMap, ciphertexts, accepted>>
           ELSE /\ userDataMap' = [userDataMap EXCEPT ![sender] = new.data]
                /\ ciphertexts' = new.cts
                /\ events' = SubmissionEvents(sender, new.data, distanceCategory, now)
                /\ accepted' = [accepted EXCEPT ![sender] =
                       Append(@, [score |-> score, time |-> now,
                                  category |-> distanceCategory,
                                  handle |-> new.data.encryptedLastScore,
                                  testMode |-> isTestModeEnabled,
                                  afterReset |-> (ud.lastRecordTime = 0
                                                  /\ ud.totalRecords > 0)])]
        /\ UNCHANGED <<isTestModeEnabled, contractAdmin, now,
                       clientVars>>

\* recordDriveScore with the cadence check turned into an early return placed
\* after the counter update: a rejected call keeps the incremented count.
recordDriveScoreNoRollback(sender, score, proofOk, distanceCategory) ==
    LET err == SubmitError(sender, proofOk, distanceCategory)
        ud == userDataMap[sender]
        new == ApplySubmission(ud, ciphertexts, sender, score, distanceCategory, now)
    IN  /\ ret' = Call("recordDriveScore", sender, distanceCategory, err)
        /\ IF err # ""
           THEN /\ events' = <<>>
                /\ userDataMap' = [userDataMap EXCEPT ![sender].totalRecords =
                                       IF err = ErrTooSoon THEN @ + 1 ELSE @]
                /\ UNCHANGED <<ciphertexts, accepted>>
           ELSE /\ userDataMap' = [userDataMap EXCEPT ![sender] = new.data]
                /\ ciphertexts' = new.cts
                /\ events' = SubmissionEvents(sender, new.data, distanceCategory, now)
                /\ accepted' = [accepted EXCEPT ![sender] =
                       Append(@, [score |-> score, time |-> now,
                                  category |-> distanceCategory,
                                  handle |-> new.data.encryptedLastScore,
                                  testMode |-> isTestModeEnabled,
                                  afterReset |-> (ud.lastRecordTime = 0
                                                  /\ ud.totalRecords > 0)])]
        /\ UNCHANGED <<isTestModeEnabled, contractAdmin, now,
                       clientVars, submit>>

\* recordDriveScore with one cadence clock shared by all principals.
recordDriveScoreSharedClock(sender, score, proofOk, distanceCategory) ==
    LET err == SubmitError(sender, proofOk, distanceCategory)
        ud == userDataMap[sender]
        new == ApplySubmission(ud, ciphertexts, sender, score, distanceCategory, now)
    IN  /\ ret' = Call("recordDriveScore", sender, distanceCategory, err)
        /\ IF err # ""
           THEN /\ events' = <<>>
                /\ UNCHANGED <<userDataMap, ciphertexts, accepted>>
           ELSE /\ userDataMap' =
                       [q \in Principals |->
                           IF q = sender THEN new.data
                           ELSE [userDataMap[q] EXCEPT !.lastRecordTime = now]]
                /\ ciphertexts' = new.cts
                /\ events' = SubmissionEvents(sender, new.data, distanceCategory, now)
                /\ accepted' = [accepted EXCEPT ![sender] =
                       Append(@, [score |-> score, time |-> now,
                                  category |-> distanceCategory,
                                  handle |-> new.data.encryptedLastScore,
                                  testMode |-> isTestModeEnabled,
                                  afterReset |-> (ud.lastRecordTime = 0
                                                  /\ ud.totalRecords > 0)])]
        /\ UNCHANGED <<isTestModeEnabled, contractAdmin, now,
                       clientVars, submit>>

recordDriveScore(sender, score, proofOk, distanceCategory) ==
    /\ Transaction(sender, score, proofOk, distanceCategory)
    /\ UNCHANGED submit

\* recordDriveScore as a function of the storage it runs on: the storage it
\* leaves behind and its revert reason ("" when it is accepted).
SubmitOutcome(map, cts, testMode, t, sender, score, proofOk, distanceCategory) ==
    LET err == SubmitErrorIn(map, testMode, t, sender, proofOk, distanceCategory)
        new == ApplySubmission(map[sender], cts, sender, score, distanceCategory, t)
    IN  IF err # ""
        THEN [map |-> map, cts |-> cts, err |-> err]
        ELSE [map |-> [map EXCEPT ![sender] = new.data], cts |-> new.cts, err |-> ""]

\* ------------------------------------------------- administrative surface
\* toggleTestMode without its `require(msg.sender == contractAdmin)`.
toggleTestModeOpen(sender, enabled) ==
    /\ ret' = Call("toggleTestMode", sender, 0, "")
    /\ isTestModeEnabled' = enabled
    /\ events' = <<[name |-> "TestModeChanged", user |-> "none",
                    time |-> 0, category |-> 0,
                    days |-> IF enabled THEN 1 ELSE 0]>>
    /\ UNCHANGED <<userDataMap, contractAdmin, now, ciphertexts, accepted,
                   clientVars, submit>>

toggleTestMode(sender, enabled) ==
    LET err == IF sender # contractAdmin THEN ErrOnlyAdmin ELSE ""
    IN  /\ ret' = Call("toggleTestMode", sender, 0, err)
        /\ IF err # ""
           THEN /\ events' = <<>>
                /\ UNCHANGED isTestModeEnabled
           ELSE /\ isTestModeEnabled' = enabled
                /\ events' = <<[name |-> "TestModeChanged", user |-> "none",
                                time |-> 0, category |-> 0,
                                days |-> IF enabled THEN 1 ELSE 0]>>
        /\ UNCHANGED <<userDataMap, contractAdmin, now, ciphertexts, accepted,
                       clientVars, submit>>

\* resetUserRecordTime writing the current time instead of 0.
resetUserRecordTimeToNow(sender, userAddress) ==
    LET err == IF ~isTestModeEnabled THEN ErrTestModeOff
               ELSE IF sender # contractAdmin THEN ErrOnlyAdmin
               ELSE ""
    IN  /\ ret' = Call("resetUserRecordTime", sender, 0, err)
        /\ events' = <<>>
        /\ IF err # ""
           THEN UNCHANGED userDataMap
           ELSE userDataMap' = [userDataMap EXCEPT ![userAddress].lastRecordTime = now]
        /\ UNCHANGED <<isTestModeEnabled, contractAdmin, now, ciphertexts, accepted,
                       clientVars, submit>>

\* resetUserRecordTime clearing the streak along with the time.
resetUserRecordTimeAndStreak(sender, userAddress) ==
    LET err == IF ~isTestModeEnabled THEN ErrTestModeOff
               ELSE IF sender # contractAdmin THEN ErrOnlyAdmin
               ELSE ""
    IN  /\ ret' = Call("resetUserRecordTime", sender, 0, err)
        /\ events' = <<>>
        /\ IF err # ""
           THEN UNCHANGED userDataMap
           ELSE userDataMap' = [userDataMap EXCEPT ![userAddress].lastRecordTime = 0,
                                                   ![userAddress].continuousDays = 0]
        /\ UNCHANGED <<isTestModeEnabled, contractAdmin, now, ciphertexts, accepted,
                       clientVars, submit>>

resetUserRecordTime(sender, userAddress) ==
    LET err == IF ~isTestModeEnabled THEN ErrTestModeOff
               ELSE IF sender # contractAdmin THEN ErrOnlyAdmin
               ELSE ""
    IN  /\ ret' = Call("resetUserRecordTime", sender, 0, err)
        /\ events' = <<>>
        /\ IF err # ""
           THEN UNCHANGED userDataMap
           ELSE userDataMap' = [userDataMap EXCEPT ![userAddress].lastRecordTime = 0]
        /\ UNCHANGED <<isTestModeEnabled, contractAdmin, now, ciphertexts, accepted,
                       clientVars, submit>>

\* ------------------------------------------------------------ environment
\* The chain's clock moves between transactions.
AdvanceTime(t) ==
    /\ t > now
    /\ now' = t
    /\ ret' = NoCall
    /\ events' = <<>>
    /\ UNCHANGED <<userDataMap, isTestModeEnabled, contractAdmin, ciphertexts,
                   accepted,
                   clientVars, submit>>

\* ----------------------------------------------------------------- views
Ok(v) == [ok |-> TRUE, value |-> v, err |-> ""]
Fail(e) == [ok |-> FALSE, value |-> 0, err |-> e]

getScoreTrendFromOne(userAddress) ==
    LET ud == userDataMap[userAddress]
    IN  IF ud.totalRecords >= 1 THEN Ok(ud.encryptedScoreChange)
        ELSE Fail(ErrInsufficient)

getScoreTrend(userAddress) ==
    LET ud == userDataMap[userAddress]
    IN  IF ud.totalRecords >= 2 THEN Ok(ud.encryptedScoreChange)
        ELSE Fail(ErrInsufficient)

getAverageCalculationData(userAddress) ==
    LET ud == userDataMap[userAddress]
    IN  [encryptedTotal |-> ud.encryptedTotalScore, recordCount |-> ud.totalRecords]

\* getLatestRecord reading the front of the history instead of its end.
getLatestRecordFirst(userAddress) ==
    LET h == userDataMap[userAddress].historyRecords
    IN  IF Len(h) > 0 THEN Ok(h[1]) ELSE Fail(ErrNoRecords)

getLatestRecord(userAddress) ==
    LET h == userDataMap[userAddress].historyRecords
    IN  IF Len(h) > 0 THEN Ok(h[Len(h)]) ELSE Fail(ErrNoRecords)

getUserStatistics(userAddress) ==
    LET ud == userDataMap[userAddress]
    IN  [recordCount |-> ud.totalRecords,
         continuousDays |-> ud.continuousDays,
         lastRecordTime |-> ud.lastRecordTime]

getRecordCount(userAddress) == Len(userDataMap[userAddress].historyRecords)

\* recordIndex is 0-based, as in the contract.
getRecordByIndex(userAddress, recordIndex) ==
    LET h == userDataMap[userAddress].historyRecords
    IN  IF recordIndex < Len(h) THEN Ok(h[recordIndex + 1]) ELSE Fail(ErrIndex)

\* A call of one of the six view functions: it returns its result (kept in
\* `ret` with the arguments of the call) and writes nothing.
QueryNames ==
    {"getScoreTrend", "getAverageCalculationData", "getLatestRecord",
     "getUserStatistics", "getRecordCount", "getRecordByIndex"}

QueryResult(name, userAddress, recordIndex) ==
    CASE name = "getScoreTrend" -> getScoreTrend(userAddress)
      [] name = "getAverageCalculationData" -> Ok(getAverageCalculationData(userAddress))
      [] name = "getLatestRecord" -> getLatestRecord(userAddress)
      [] name = "getUserStatistics" -> Ok(getUserStatistics(userAddress))
      [] name = "getRecordCount" -> Ok(getRecordCount(userAddress))
      [] name = "getRecordByIndex" -> getRecordByIndex(userAddress, recordIndex)

QueryCall(name, sender, userAddress, recordIndex, result) ==
    [op |-> name, sender |-> sender, category |-> 0, err |-> result.err,
     user |-> userAddress, index |-> recordIndex, result |-> result]

\* A view that stamps the time of the read into the UserData it reads.
QueryStamping(sender, name, userAddress, recordIndex) ==
    /\ ret' = QueryCall(name, sender, userAddress, recordIndex,
                        QueryResult(name, userAddress, recordIndex))
    /\ events' = <<>>
    /\ userDataMap' = [userDataMap EXCEPT ![userAddress].lastRecordTime = now]
    /\ UNCHANGED <<isTestModeEnabled, contractAdmin, now, ciphertexts, accepted,
                   clientVars, submit>>

Query(sender, name, userAddress, recordIndex) ==
    /\ ret' = QueryCall(name, sender, userAddress, recordIndex,
                        QueryResult(name, userAddress, recordIndex))
    /\ events' = <<>>
    /\ UNCHANGED <<userDataMap, isTestModeEnabled, contractAdmin, now,
                   ciphertexts, accepted,
                   clientVars, submit>>

\* ------------------------------------------------ decryption authorizer
\* FhevmDecryptionSignature and GenericStringInMemoryStorage: a signed
\* authorization is valid from issuedAt for ValidDuration seconds; the cache
\* hands out an entry only while it is valid; a signature request that is
\* still with the wallet is shared by the callers that arrive meanwhile.
ValidDuration == 86400

Unexpired(auth, t) == auth # Null /\ t < auth.issuedAt + ValidDuration

CachedAuthorizationStale(storage, t) == storage

CachedAuthorization(storage, t) ==
    IF Unexpired(storage, t) THEN storage ELSE Null

InFlightIgnored(requests) == {}

InFlight(requests) ==
    {i \in 1..Len(requests) : requests[i].state = "pending"}

Authorization(requests, i) ==
    [keyPair |-> requests[i].keyPair, issuedAt |-> requests[i].issuedAt]

\* ------------------------------------------------------- frontend pages
Reverse(seq) == [i \in 1..Len(seq) |-> seq[Len(seq) + 1 - i]]


\* What a flow of `user` started now has to decrypt: the Dashboard the total
\* when its totalRecords (count) is positive and the trend from two records on
\* (both read from the contract when their turn comes); Analytics every record
\* of the history; History the records it loaded, newest first.
PageItems(page, user, count) ==
    LET records == [i \in 1..getRecordCount(user) |->
                       [kind |-> "record",
                        handle |-> getRecordByIndex(user, i - 1).value.encryptedScore]]
    IN  CASE page = "Dashboard" ->
                (IF count > 0
                 THEN <<[kind |-> "total", handle |-> 0, count |-> 0]>> ELSE <<>>)
                \o (IF count >= 2 THEN <<[kind |-> "trend", handle |-> 0]>> ELSE <<>>)
          [] page = "Analytics" -> records
          [] page = "History" -> Reverse(records)

\* The handle of an item, read when the flow gets to it.
ItemHandle(item, user) ==
    CASE item.kind = "total" -> getAverageCalculationData(user).encryptedTotal
      [] item.kind = "trend" -> getScoreTrend(user).value
      [] OTHER -> item.handle

\* The item as the flow holds it once it has read it from the contract: with
\* its handle and, for the total, the count that came with it.
ItemRead(item, user) ==
    IF item.kind = "total"
    THEN [item EXCEPT !.handle = ItemHandle(item, user),
                      !.count = getAverageCalculationData(user).recordCount]
    ELSE [item EXCEPT !.handle = ItemHandle(item, user)]

\* Whether the contract answers the read of an item: getScoreTrend reverts
\* below two records, the other reads always return.
ReadReturns(item, user) == item.kind = "trend" => getScoreTrend(user).ok

\* The item a flow is at.
Current(r) == Len(r.shown) + 1

\* Where a flow goes once the item it is at is dealt with: the Dashboard
\* calls loadOrSign again before its next value, the other pages go on
\* decrypting under the `sig` they have.
Advance(page, r) ==
    IF Len(r.shown) >= Len(r.items) THEN "done"
    ELSE IF page = "Dashboard" THEN "sign" ELSE "decrypt"

\* A flow that goes on to decrypt although loadOrSign returned null.
AfterDeclineProceeds(page, r) == [r EXCEPT !.sig = Null, !.pc = "decrypt"]

\* loadOrSign returned null: the Dashboard leaves the value null and goes on
\* to its next one, Analytics and History return.
AfterDecline(page, r) ==
    IF page = "Dashboard"
    THEN LET skipped == [r EXCEPT !.sig = Null, !.shown = Append(@, NoScore)]
         IN  [skipped EXCEPT !.pc = Advance(page, skipped)]
    ELSE [r EXCEPT !.sig = Null, !.pc = "done"]

\* What a page keeps for a value whose userDecrypt call returned (ok) or
\* threw: Analytics puts score 0 in its catch, History keeps the record with
\* its null score, the Dashboard leaves average or trend null.
Decrypted(page, ok, plain) ==
    IF ok THEN plain
    ELSE IF page = "Analytics" THEN U32(0) ELSE NoScore

\* The entry of decryptAndLoadStats, loadAnalytics, decryptScores for the
\* signer of the render it was created in, which is the render whose new
\* storage it holds.
BeginFlow(page, user, count) ==
    LET r == runs[page]
        items == PageItems(page, user, count)
    IN  /\ r.pc = "idle"
        /\ user # NoSigner
        /\ runs' = [runs EXCEPT ![page] =
               [r EXCEPT !.user = user, !.storage = Null, !.sig = Null,
                         !.req = 0, !.items = items, !.shown = <<>>,
                         !.pc = IF items = <<>> THEN "done" ELSE "sign"]]
        /\ started' = started + 1
        /\ UNCHANGED <<userDataMap, isTestModeEnabled, contractAdmin, now,
                       ciphertexts, events, ret, accepted, signRequests,
                       decryptRequests, wallet, submit>>

\* The Dashboard as its mount leaves it once loadBasicStats has returned with
\* the statistics of `user`.
MountedStats(user) ==
    [InitialStats EXCEPT !.totalRecords = getUserStatistics(user).recordCount]

\* The user opens a page and starts its flow: Analytics and History load
\* their records and decrypt them; the Dashboard mounts, loads the statistics
\* and has its decrypt button pressed.
StartFlow(page) ==
    /\ BeginFlow(page, wallet.signer, getUserStatistics(wallet.signer).recordCount)
    /\ dashboard' = IF page = "Dashboard" THEN MountedStats(wallet.signer)
                    ELSE dashboard

\* The call of loadOrSign(instance, [contractAddress], signer, storage).
loadOrSign(page) ==
    LET r == runs[page]
        k == Current(r)
        at == [r EXCEPT !.items[k] = ItemRead(r.items[k], r.user)]
        cached == CachedAuthorization(r.storage, now)
        pending == InFlight(signRequests)
        new == Len(signRequests) + 1
    IN  /\ r.pc = "sign"
        /\ ReadReturns(r.items[k], r.user)
        /\ IF cached # Null
           THEN /\ runs' = [runs EXCEPT ![page] =
                       [at EXCEPT !.sig = cached, !.pc = "decrypt"]]
                /\ UNCHANGED signRequests
           ELSE IF pending # {}
           THEN /\ runs' = [runs EXCEPT ![page] =
                       [at EXCEPT !.pc = "await",
                                  !.req = CHOOSE i \in pending : TRUE]]
                /\ UNCHANGED signRequests
           ELSE /\ runs' = [runs EXCEPT ![page] =
                       [at EXCEPT !.pc = "await", !.req = new]]
                /\ signRequests' = Append(signRequests,
                       [keyPair |-> new, issuedAt |-> now, state |-> "pending"])
        /\ UNCHANGED <<userDataMap, isTestModeEnabled, contractAdmin, now,
                       ciphertexts, events, ret, accepted, decryptRequests,
                       started, wallet, dashboard, submit>>

\* The wallet answers signature request i: the user signs or declines.  Every
\* flow awaiting it gets the authorization, stored in its storage, or null.
SignerAnswers(i, approved) ==
    /\ i \in 1..Len(signRequests)
    /\ signRequests[i].state = "pending"
    /\ signRequests' = [signRequests EXCEPT
           ![i].state = IF approved THEN "signed" ELSE "declined"]
    /\ runs' = [page \in Pages |->
           LET r == runs[page]
           IN  IF r.pc = "await" /\ r.req = i
               THEN IF approved
                    THEN [r EXCEPT !.storage = Authorization(signRequests, i),
                                   !.sig = Authorization(signRequests, i),
                                   !.req = 0, !.pc = "decrypt"]
                    ELSE AfterDecline(page, [r EXCEPT !.req = 0])
               ELSE r]
    /\ UNCHANGED <<userDataMap, isTestModeEnabled, contractAdmin, now,
                   ciphertexts, events, ret, accepted, decryptRequests,
                   started, wallet, dashboard, submit>>

\* One call of fhevm.instance.userDecrypt([{handle, contractAddress}], sig...)
\* and its try/catch: the relayer answers (relayerOk) or not.
DecryptItem(page, relayerOk) ==
    LET r == runs[page]
        h == r.items[Current(r)].handle
        plain == UserDecrypt(ciphertexts, h, r.user)
        ok == relayerOk /\ Unexpired(r.sig, now) /\ plain # Denied
        next == [r EXCEPT !.shown = Append(@, Decrypted(page, ok, plain))]
    IN  /\ r.pc = "decrypt"
        /\ decryptRequests' = [decryptRequests EXCEPT ![page] =
               Append(@, [item |-> Current(r), handles |-> <<h>>,
                          keyPair |-> r.sig.keyPair, ok |-> ok])]
        /\ runs' = [runs EXCEPT ![page] = [next EXCEPT !.pc = Advance(page, next)]]
        /\ UNCHANGED <<userDataMap, isTestModeEnabled, contractAdmin, now,
                       ciphertexts, events, ret, accepted, signRequests,
                       started, wallet, dashboard, submit>>

\* The value of `average` and of `trend` at the end of decryptAndLoadStats:
\* null unless the value was requested and decrypted; the average is the
\* decrypted total over the count that came with its handle.
Average(r) ==
    IF \E k \in 1..Len(r.items) : r.items[k].kind = "total" /\ r.shown[k] # NoScore
    THEN [total |-> r.shown[1], count |-> r.items[1].count]
    ELSE NoScore

Trend(r) ==
    IF \E k \in 1..Len(r.items) : r.items[k].kind = "trend" /\ r.shown[k] # NoScore
    THEN r.shown[Len(r.items)]
    ELSE NoScore

\* What decryptAndLoadStats leaves in the Dashboard's state when it reaches its
\* end: the two values, and the decrypted state always set.
StatsDecrypted(r) ==
    [dashboard EXCEPT !.averageScore = Average(r), !.scoreTrend = Trend(r),
                      !.isDecrypted = TRUE]

\* The end of the flow (its `finally`): what it held is dropped with its
\* closure.  A Dashboard flow that got to its end and not into its catch
\* leaves its results in the component's state.
FinishFlow(page) ==
    LET r == runs[page]
    IN  /\ r.pc \in {"done", "failed"}
        /\ runs' = [runs EXCEPT ![page] = IdleRun]
        /\ decryptRequests' = [decryptRequests EXCEPT ![page] = <<>>]
        /\ dashboard' = IF page = "Dashboard" /\ r.pc = "done"
                        THEN StatsDecrypted(r) ELSE dashboard
        /\ UNCHANGED <<userDataMap, isTestModeEnabled, contractAdmin, now,
                       ciphertexts, events, ret, accepted, signRequests,
                       started, wallet, submit>>

\* ------------------------------------------------- wallet and Dashboard
\* The press of the Dashboard's decrypt button: decryptAndLoadStats starts
\* with the signer and the totalRecords of the latest render.
decryptAndLoadStats ==
    /\ wallet.isConnected
    /\ BeginFlow("Dashboard", wallet.signer, dashboard.totalRecords)
    /\ UNCHANGED dashboard

\* The read of the item the flow is at reverts: the flow is thrown into the
\* outer catch of decryptAndLoadStats.
ReadReverts(page) ==
    LET r == runs[page]
    IN  /\ r.pc = "sign"
        /\ ~ReadReturns(r.items[Current(r)], r.user)
        /\ runs' = [runs EXCEPT ![page].pc = "failed"]
        /\ UNCHANGED <<userDataMap, isTestModeEnabled, contractAdmin, now,
                       ciphertexts, events, ret, accepted, signRequests,
                       decryptRequests, started, wallet, dashboard, submit>>

\* loadBasicStats called with the signer of its render: it asks for that
\* signer's statistics, or returns at once without a signer.
loadBasicStats(stats, signer) ==
    IF signer = NoSigner THEN stats
    ELSE [stats EXCEPT !.loading = @ \cup {signer}]

\* The Dashboard's effect on wallet.isConnected, run after a render in which
\* it turned true.
ConnectedEffect(stats, signer) ==
    [loadBasicStats(stats, signer) EXCEPT !.isDecrypted = FALSE,
                                          !.averageScore = NoScore,
                                          !.scoreTrend = NoScore]

\* getUserStatistics answers a pending loadBasicStats (ok) or throws.
StatsLoaded(user, ok) ==
    /\ user \in dashboard.loading
    /\ dashboard' = [dashboard EXCEPT
           !.loading = @ \ {user},
           !.totalRecords = IF ok THEN getUserStatistics(user).recordCount ELSE @]
    /\ UNCHANGED <<userDataMap, isTestModeEnabled, contractAdmin, now,
                   ciphertexts, events, ret, accepted, runs, signRequests,
                   decryptRequests, started, wallet, submit>>

\* useWallet.connect, from the button the layout shows while disconnected:
\* the wallet hands out `account` and its signer.
connect(account) ==
    /\ ~wallet.isConnected
    /\ wallet' = ConnectedWallet(account)
    /\ dashboard' = ConnectedEffect(dashboard, account)
    /\ UNCHANGED <<userDataMap, isTestModeEnabled, contractAdmin, now,
                   ciphertexts, events, ret, accepted, runs, signRequests,
                   decryptRequests, started, submit>>

\* The wallet's accountsChanged event.
handleAccountsChanged(accounts) ==
    /\ wallet' = [wallet EXCEPT !.accounts = accounts,
                                !.isConnected = Len(accounts) > 0]
    /\ dashboard' = IF ~wallet.isConnected /\ Len(accounts) > 0
                    THEN ConnectedEffect(dashboard, wallet.signer)
                    ELSE dashboard
    /\ UNCHANGED <<userDataMap, isTestModeEnabled, contractAdmin, now,
                   ciphertexts, events, ret, accepted, runs, signRequests,
                   decryptRequests, started, submit>>

\* ----------------------------------------------------------- Submit page
Message(type, text) == [type |-> type, text |-> text]

\* The range check of submitScore.
ScoreOutOfRangeBelowOnly(score) == score < 0

ScoreOutOfRange(score) == score < 0 \/ score > 100

\* Sequence seq without its i-th element.
Without(seq, i) == [k \in 1..(Len(seq) - 1) |-> IF k < i THEN seq[k] ELSE seq[k + 1]]

submitFrame ==
    UNCHANGED <<userDataMap, isTestModeEnabled, contractAdmin, now, ciphertexts,
                events, ret, accepted, clientVars>>

\* onChange of the score slider and of the number input; the number input
\* takes whatever number is typed.
setScore(value) ==
    /\ wallet.isConnected
    /\ submit' = [submit EXCEPT !.score = value]
    /\ submitFrame

setDistanceCategory(level) ==
    /\ wallet.isConnected
    /\ submit' = [submit EXCEPT !.distanceCategory = level]
    /\ submitFrame

\* A press of the submit button, up to the first await of submitScore.  The
\* call goes on with the score, the category and the signer of the render it
\* was created in; `deployed` is whether getContract finds the contract.
submitScore(deployed) ==
    /\ wallet.isConnected
    /\ ~submit.isSubmitting
    /\ submit' =
          IF wallet.signer = NoSigner
          THEN [submit EXCEPT !.message =
                   Message("error", "FHEVM_NOT_READY | WALLET_NOT_CONNECTED")]
          ELSE IF ScoreOutOfRange(submit.score)
          THEN [submit EXCEPT !.message =
                   Message("error", "SCORE_OUT_OF_RANGE [0-100]")]
          ELSE IF ~deployed
          THEN [submit EXCEPT !.message = Message("error", "CONTRACT_NOT_DEPLOYED"),
                              !.isSubmitting = FALSE]
          ELSE [submit EXCEPT !.isSubmitting = TRUE,
                              !.message = Message("info", "ENCRYPTING_DATA..."),
                              !.flows = Append(@,
                                  [pc |-> "encrypt", score |-> submit.score,
                                   distanceCategory |-> submit.distanceCategory,
                                   signer |-> wallet.signer])]
    /\ submitFrame

\* The catch and the finally of submitScore that leave the error with the
\* button enabled again, but for the finally.
ThrownKeepsSubmitting(i) ==
    [submit EXCEPT !.message = Message("error", "ERROR"),
                   !.flows = Without(@, i)]

\* The catch and the finally of submitScore.
Thrown(i) ==
    [submit EXCEPT !.message = Message("error", "ERROR"),
                   !.isSubmitting = FALSE,
                   !.flows = Without(@, i)]

\* input.add32(score) and input.encrypt(): the encryption returns, and the
\* call goes on to ask the wallet for the transaction, or throws.
encrypt(i, ok) ==
    /\ i \in 1..Len(submit.flows)
    /\ submit.flows[i].pc = "encrypt"
    /\ LET asked == [submit EXCEPT !.encrypted = @ \cup {submit.flows[i].score}]
       IN  submit' =
              IF ok
              THEN [asked EXCEPT !.message =
                                    Message("info", "SUBMITTING_TO_BLOCKCHAIN..."),
                                 !.flows[i].pc = "send"]
              ELSE [Thrown(i) EXCEPT !.encrypted = asked.encrypted]
    /\ submitFrame

\* contract.recordDriveScore(handle, proof, distanceCategory) returns the
\* transaction the wallet has sent, or throws when the user rejects it.
sendTransaction(i, approved) ==
    /\ i \in 1..Len(submit.flows)
    /\ submit.flows[i].pc = "send"
    /\ submit' =
          IF approved
          THEN [submit EXCEPT !.message = Message("info", "TX_HASH"),
                              !.flows[i].pc = "wait"]
          ELSE Thrown(i)
    /\ submitFrame

\* The transaction of flow i is mined: the ledger executes it for the signer
\* that sent it.
mine(i) ==
    /\ i \in 1..Len(submit.flows)
    /\ submit.flows[i].pc = "wait"
    /\ Transaction(submit.flows[i].signer, submit.flows[i].score, TRUE,
                   submit.flows[i].distanceCategory)
    /\ submit' = [submit EXCEPT !.flows[i].pc =
                     IF ret'.err = "" THEN "confirmed" ELSE "reverted"]

\* tx.wait() returns for a confirmed transaction and throws for a reverted one.
wait(i) ==
    /\ i \in 1..Len(submit.flows)
    /\ submit.flows[i].pc \in {"confirmed", "reverted"}
    /\ submit' =
          IF submit.flows[i].pc = "confirmed"
          THEN [submit EXCEPT !.message = Message("success", "RECORD_SUBMITTED"),
                              !.isSubmitting = FALSE,
                              !.flows = Without(@, i)]
          ELSE Thrown(i)
    /\ submitFrame

\* ------------------------------------------------------- specifications
Next ==
    \/ \E p \in Principals, s \in Scores, ok \in BOOLEAN, c \in Categories :
          /\ SumRecords(userDataMap, Principals) < MaxSubmissions
          /\ recordDriveScore(p, s, ok, c)
    \/ \E p \in Principals, e \in BOOLEAN : toggleTestMode(p, e)
    \/ \E p \in Principals, u \in Principals : resetUserRecordTime(p, u)
    \/ \E t \in BlockTimes : AdvanceTime(t)

Spec == Init /\ [][Next]_vars

\* Two principals whose well-formed submissions interleave within one block and
\* across one day, with the administrator's calls in between.
PairTimes == {GenesisTime, GenesisTime + DAILY_SUBMIT_INTERVAL}

NextPair ==
    \/ \E p \in Principals, s \in Scores :
          /\ SumRecords(userDataMap, Principals) < MaxPairSubmissions
          /\ recordDriveScore(p, s, TRUE, MAX_DISTANCE_CATEGORY)
    \/ \E e \in BOOLEAN : toggleTestMode(contractAdmin, e)
    \/ \E u \in Principals : resetUserRecordTime(contractAdmin, u)
    \/ \E t \in PairTimes : AdvanceTime(t)

SpecPair == Init /\ [][NextPair]_vars

\* The two principals of SpecPair, each queried by the other between their
\* calls (the views do not read msg.sender).
QueryIndexes == 0..MaxPairSubmissions

NextQueries ==
    \/ NextPair
    \/ \E u \in Principals, name \in QueryNames, i \in QueryIndexes :
          /\ name # "getRecordByIndex" => i = 0
          /\ \E p \in Principals \ {u} : Query(p, name, u, i)

SpecQueries == Init /\ [][NextQueries]_vars

\* A single principal who submits once a day, far enough to overflow the
\* history.  The first DeepVaried submissions draw their score freely and may
\* come exactly at the grace limit; the later ones are fixed by their number.
DeepUser == "alice"
DeepScore(n) == (37 * n) % 101
DeepCategory(n) == n % (MAX_DISTANCE_CATEGORY + 1)
DeepCount == userDataMap[DeepUser].totalRecords

DeepSubmit ==
    /\ DeepCount < DeepSubmissions
    /\ \E s \in (IF DeepCount < DeepVaried THEN Scores ELSE {DeepScore(DeepCount)}) :
          recordDriveScore(DeepUser, s, TRUE, DeepCategory(DeepCount))

DeepDay ==
    /\ now = userDataMap[DeepUser].lastRecordTime
    /\ \E d \in (IF DeepCount <= DeepVaried
                 THEN {DAILY_SUBMIT_INTERVAL, DAILY_SUBMIT_INTERVAL + GRACE_SECONDS}
                 ELSE {DAILY_SUBMIT_INTERVAL}) :
          AdvanceTime(now + d)

NextDeep == DeepSubmit \/ DeepDay

SpecDeep == Init /\ [][NextDeep]_vars

\* The wallet user submits and the pages decrypt, the wallet and the relayer
\* answering when they do, over three days.
ClientTimes == PairTimes \cup {GenesisTime + 2 * DAILY_SUBMIT_INTERVAL}

NextClient ==
    \/ /\ userDataMap[WalletUser].totalRecords < MaxClientSubmissions
       /\ recordDriveScore(WalletUser,
                           DeepScore(userDataMap[WalletUser].totalRecords + 1),
                           TRUE, MAX_DISTANCE_CATEGORY)
    \/ \E t \in ClientTimes : AdvanceTime(t)
    \/ \E page \in Pages :
          /\ started < MaxClientRuns
          /\ StartFlow(page)
    \/ \E page \in Pages : loadOrSign(page)
    \/ \E i \in 1..Len(signRequests), approved \in BOOLEAN : SignerAnswers(i, approved)
    \/ \E page \in Pages, relayerOk \in BOOLEAN : DecryptItem(page, relayerOk)
    \/ \E page \in Pages : FinishFlow(page)

SpecClient == Init /\ [][NextClient]_vars

\* The same with a relayer that always answers: the authorization protocol
\* alone.
NextSign ==
    \/ /\ userDataMap[WalletUser].totalRecords < MaxClientSubmissions
       /\ recordDriveScore(WalletUser,
                           DeepScore(userDataMap[WalletUser].totalRecords + 1),
                           TRUE, MAX_DISTANCE_CATEGORY)
    \/ \E t \in ClientTimes : AdvanceTime(t)
    \/ \E page \in Pages :
          /\ started < MaxClientRuns
          /\ StartFlow(page)
    \/ \E page \in Pages : loadOrSign(page)
    \/ \E i \in 1..Len(signRequests), approved \in BOOLEAN : SignerAnswers(i, approved)
    \/ \E page \in Pages : DecryptItem(page, TRUE)
    \/ \E page \in Pages : FinishFlow(page)

SpecSign == Init /\ [][NextSign]_vars

\* The wallet user at the Submit page over two days: what they enter, the
\* button, and the encryption, the wallet and the chain answering.
ScoreInputs == {-1, 100, 101}
DistanceLevels == {0, 3}

NextSubmit ==
    \/ \E value \in ScoreInputs : setScore(value)
    \/ \E level \in DistanceLevels : setDistanceCategory(level)
    \/ \E deployed \in BOOLEAN :
          /\ Len(accepted[wallet.signer]) < MaxPageSubmissions
          /\ submitScore(deployed)
    \/ \E i \in 1..Len(submit.flows), ok \in BOOLEAN : encrypt(i, ok)
    \/ \E i \in 1..Len(submit.flows), approved \in BOOLEAN : sendTransaction(i, approved)
    \/ \E i \in 1..Len(submit.flows) : mine(i)
    \/ \E i \in 1..Len(submit.flows) : wait(i)
    \/ \E t \in PairTimes : AdvanceTime(t)

SpecSubmit == Init /\ [][NextSubmit]_vars

\* The principals submit, the wallet switches between their accounts, and the
\* user in front of the Dashboard decrypts.
AccountLists == {<<>>} \cup {<<p>> : p \in Principals}

NextDashboard ==
    \/ \E p \in Principals :
          /\ userDataMap[p].totalRecords < MaxClientSubmissions
          /\ recordDriveScore(p, DeepScore(userDataMap[p].totalRecords + 1),
                              TRUE, MAX_DISTANCE_CATEGORY)
    \/ \E t \in PairTimes : AdvanceTime(t)
    \/ \E account \in Principals : connect(account)
    \/ \E accounts \in AccountLists :
          /\ accounts # wallet.accounts
          /\ handleAccountsChanged(accounts)
    \/ \E user \in Principals, ok \in BOOLEAN : StatsLoaded(user, ok)
    \/ /\ started < MaxClientRuns
       /\ decryptAndLoadStats
    \/ loadOrSign("Dashboard")
    \/ ReadReverts("Dashboard")
    \/ \E i \in 1..Len(signRequests), approved \in BOOLEAN : SignerAnswers(i, approved)
    \/ \E relayerOk \in BOOLEAN : DecryptItem("Dashboard", relayerOk)
    \/ FinishFlow("Dashboard")

SpecDashboard == Init /\ [][NextDashboard]_vars

\* ------------------------------------------------------------------ claims
\* The record the k-th accepted submission of p stored (k counted from 1).
SubmittedRecord(p, k) ==
    DriveRecord(accepted[p][k].handle, accepted[p][k].time, accepted[p][k].category)

\* C1: for every principal with N accepted submissions, getUserStatistics
\* reports the count N and getRecordCount reports min(N, 50); so the history
\* never holds more than 50 records.
C1_CountAndHistoryLength ==
    \A p \in Principals :
        /\ getUserStatistics(p).recordCount = Len(accepted[p])
        /\ getRecordCount(p) = Min(Len(accepted[p]), MAX_HISTORY_RECORDS)

\* C2: after N > 50 accepted submissions, getRecordByIndex(p, i) returns the
\* record of submission number N - 50 + i + 1, for every i in 0..49.
C2_MostRecentFifty ==
    \A p \in Principals :
        LET N == Len(accepted[p])
        IN  N > MAX_HISTORY_RECORDS =>
                \A i \in 0..(MAX_HISTORY_RECORDS - 1) :
                    getRecordByIndex(p, i)
                        = Ok(SubmittedRecord(p, N - MAX_HISTORY_RECORDS + i + 1))

\* C3: every record getRecordByIndex returns for an index below
\* getRecordCount is the record of one accepted submission of that principal,
\* unchanged, and its handle decrypts for the owner to the submitted score.
C3_RecordsImmutable ==
    \A p \in Principals :
        \A i \in 0..(getRecordCount(p) - 1) :
            \E k \in 1..Len(accepted[p]) :
                /\ getRecordByIndex(p, i) = Ok(SubmittedRecord(p, k))
                /\ UserDecrypt(ciphertexts, accepted[p][k].handle, p)
                       = U32(accepted[p][k].score)

\* The latest step was a recordDriveScore call by p (accepted or rejected).
Submitted(p) == ret.op = "recordDriveScore" /\ ret.sender = p

\* C4: with test mode off, a submission with a valid proof and category by a
\* principal whose lastRecordTime is non-zero is rejected with "Only one
\* submission per day" exactly when now - lastRecordTime < 86400; at 86400
\* seconds or more it passes the cadence check.
C4_CadenceCheck ==
    [][\A p \in Principals :
         ( /\ Submitted(p)'
           /\ ret'.err # ErrInvalidProof
           /\ ret'.category <= 3
           /\ ~isTestModeEnabled
           /\ userDataMap[p].lastRecordTime > 0 )
         => ( ret'.err = ErrTooSoon
                <=> now - userDataMap[p].lastRecordTime < 86400 )]_vars

C4_Witness ==
    \E p \in Principals :
        /\ Submitted(p)
        /\ ret.err = ErrTooSoon
        /\ ~isTestModeEnabled
        /\ now - userDataMap[p].lastRecordTime = 43200

\* C5: a recordDriveScore call that fails a precondition (proof, category,
\* cadence) changes nothing: every principal's UserData, the test-mode flag,
\* the administrator, every ciphertext and ACL stay as they were, and no event
\* is emitted.
C5_FailedSubmitChangesNothing ==
    [][\A p \in Principals :
         ( /\ Submitted(p)'
           /\ ret'.err \in {ErrInvalidProof, ErrInvalidCategory, ErrTooSoon} )
         => ( /\ userDataMap' = userDataMap
              /\ isTestModeEnabled' = isTestModeEnabled
              /\ contractAdmin' = contractAdmin
              /\ ciphertexts' = ciphertexts
              /\ events' = <<>> )]_vars

C5_Witness ==
    \E p \in Principals :
        /\ Submitted(p)
        /\ ret.err = ErrTooSoon
        /\ userDataMap[p].totalRecords = 1
        /\ events = <<>>

\* C6 (as claimed): any two accepted submissions of one principal that were
\* both made with test mode off are at least 86400 seconds apart.
C6_OncePerDay ==
    \A p \in Principals :
        \A i \in 1..Len(accepted[p]) : \A j \in (i + 1)..Len(accepted[p]) :
            (~accepted[p][i].testMode /\ ~accepted[p][j].testMode)
            => accepted[p][j].time - accepted[p][i].time >= 86400

\* C6 (amended): any two accepted submissions of one principal that were both
\* made with test mode off, with no clock reset of that principal between
\* them, are at least 86400 seconds apart.
C6_OncePerDayUnlessReset ==
    \A p \in Principals :
        \A i \in 1..Len(accepted[p]) : \A j \in (i + 1)..Len(accepted[p]) :
            ( /\ ~accepted[p][i].testMode
              /\ ~accepted[p][j].testMode
              /\ \A k \in (i + 1)..j : ~accepted[p][k].afterReset )
            => accepted[p][j].time - accepted[p][i].time >= 86400

C6_Witness ==
    \E p \in Principals :
        /\ Len(accepted[p]) = 2
        /\ ~accepted[p][1].testMode
        /\ ~accepted[p][2].testMode
        /\ ~accepted[p][2].afterReset
        /\ accepted[p][2].time - accepted[p][1].time = 86400

\* C7: every accepted submission sets continuousDays to 1 if lastRecordTime
\* was 0; otherwise to the previous value + 1 if now - lastRecordTime < 90000
\* and to 1 if it is 90000 or more.
C7_StreakRule ==
    [][\A p \in Principals :
         (Submitted(p)' /\ ret'.err = "")
         => userDataMap'[p].continuousDays =
                IF userDataMap[p].lastRecordTime = 0 THEN 1
                ELSE IF now - userDataMap[p].lastRecordTime < 90000
                     THEN userDataMap[p].continuousDays + 1
                     ELSE 1]_vars

\* A second submission exactly 90000 s after the first, streak back at 1.
C7_Witness ==
    \E p \in Principals :
        /\ Submitted(p)
        /\ ret.err = ""
        /\ Len(accepted[p]) = 2
        /\ ~accepted[p][2].afterReset
        /\ accepted[p][2].time - accepted[p][1].time = 90000
        /\ userDataMap[p].continuousDays = 1

\* C8: getScoreTrend succeeds exactly for the principals with at least two
\* accepted submissions, and otherwise fails with "Insufficient records for
\* trend" (no default value), clock resets included.
C8_TrendAvailability ==
    \A p \in Principals :
        IF Len(accepted[p]) >= 2
        THEN getScoreTrend(p) = Ok(userDataMap[p].encryptedScoreChange)
        ELSE getScoreTrend(p) = Fail(ErrInsufficient)

\* One accepted submission, the clock reset by the administrator: no trend.
C8_Witness ==
    \E p \in Principals :
        /\ Len(accepted[p]) = 1
        /\ userDataMap[p].lastRecordTime = 0
        /\ ~getScoreTrend(p).ok

\* A decrypted euint32 is an unsigned 32-bit number: it is the integer n only
\* if n >= 0 and its halves are those of n.
DecryptsTo(plaintext, n) == n >= 0 /\ plaintext = U32(n)

\* C9: after the k-th accepted submission (k >= 2) the value getScoreTrend
\* returns decrypts to s_k - s_(k-1), negative on a decline; after the first
\* submission the stored delta decrypts to 0.
C9_TrendValue ==
    \A p \in Principals :
        LET N == Len(accepted[p])
            delta == UserDecrypt(ciphertexts, userDataMap[p].encryptedScoreChange, p)
        IN  /\ N = 1 => DecryptsTo(delta, 0)
            /\ N >= 2 =>
                 /\ getScoreTrend(p).ok
                 /\ DecryptsTo(UserDecrypt(ciphertexts, getScoreTrend(p).value, p),
                               accepted[p][N].score - accepted[p][N - 1].score)

RECURSIVE SumScores(_, _)
SumScores(log, n) == IF n = 0 THEN 0 ELSE log[n].score + SumScores(log, n - 1)

\* C10: after N >= 1 accepted submissions with scores in 0..100,
\* getAverageCalculationData returns the count N and a total that decrypts to
\* the sum of the N scores.
C10_RunningTotal ==
    \A p \in Principals :
        LET N == Len(accepted[p])
            data == getAverageCalculationData(p)
        IN  (N >= 1 /\ \A k \in 1..N : accepted[p][k].score \in 0..100)
            => /\ data.recordCount = N
               /\ DecryptsTo(UserDecrypt(ciphertexts, data.encryptedTotal, p),
                             SumScores(accepted[p], N))

C10_Witness ==
    \E p \in Principals :
        /\ Len(accepted[p]) = 2
        /\ accepted[p][1].score # accepted[p][2].score
        /\ UserDecrypt(ciphertexts, getAverageCalculationData(p).encryptedTotal, p)
               = U32(140)

\* The encrypted values reachable from the UserData of p: the total, the last
\* score, the delta and the score of every record of the history.
EncryptedValues(p) ==
    LET ud == userDataMap[p]
    IN  {ud.encryptedTotalScore, ud.encryptedLastScore, ud.encryptedScoreChange}
        \cup {ud.historyRecords[i].encryptedScore : i \in 1..Len(ud.historyRecords)}

\* The principals (and the contract) allowed on a handle; nobody is allowed
\* on the uninitialised handle.
AclOf(cts, h) == IF h \in 1..Len(cts) THEN cts[h].acl ELSE {}

\* C11: every encrypted value reachable from the state of a principal p who
\* has submitted is granted to exactly {contract, p}.
C11_AclExact ==
    \A p \in Principals :
        userDataMap[p].totalRecords >= 1 =>
            \A h \in EncryptedValues(p) : AclOf(ciphertexts, h) = {Ledger, p}

\* C12: a decryption of any encrypted field of p under an authorization
\* signed by another principal q is denied.
C12_CrossPrincipalDenied ==
    \A p \in Principals : \A q \in Principals \ {p} :
        \A h \in EncryptedValues(p) :
            UserDecrypt(ciphertexts, h, q) = Denied

\* Both principals have submitted; each reads its own total, not the other's.
C12_Witness ==
    \E p \in Principals : \E q \in Principals \ {p} :
        /\ userDataMap[p].totalRecords = 1
        /\ userDataMap[q].totalRecords = 1
        /\ UserDecrypt(ciphertexts, userDataMap[p].encryptedTotalScore, p) # Denied
        /\ UserDecrypt(ciphertexts, userDataMap[p].encryptedTotalScore, q) = Denied

\* C13: toggleTestMode by anyone but the administrator is refused and leaves
\* the flag as it is; resetUserRecordTime is refused, with no state change,
\* when the caller is not the administrator or test mode is off; so the flag
\* changes only through a call of the administrator.
C13_AdminFailsClosed ==
    [][/\ (ret'.op = "toggleTestMode" /\ ret'.sender # contractAdmin)
            => /\ ret'.err = ErrOnlyAdmin
               /\ isTestModeEnabled' = isTestModeEnabled
       /\ ( /\ ret'.op = "resetUserRecordTime"
            /\ (ret'.sender # contractAdmin \/ ~isTestModeEnabled) )
            => /\ ret'.err \in {ErrOnlyAdmin, ErrTestModeOff}
               /\ userDataMap' = userDataMap
               /\ isTestModeEnabled' = isTestModeEnabled
               /\ ciphertexts' = ciphertexts
       /\ isTestModeEnabled' # isTestModeEnabled
            => /\ ret'.op = "toggleTestMode"
               /\ ret'.sender = contractAdmin
               /\ ret'.err = ""]_vars

\* Test mode is on and a principal other than the administrator was refused
\* the clock reset.
C13_Witness ==
    /\ ret.op = "resetUserRecordTime"
    /\ ret.sender # contractAdmin
    /\ isTestModeEnabled
    /\ ret.err = ErrOnlyAdmin

\* C14: continuousDays of a principal is at least 1 once that principal has
\* an accepted submission, whatever submissions, toggles and resets follow.
C14_StreakAtLeastOne ==
    \A p \in Principals :
        Len(accepted[p]) >= 1 => getUserStatistics(p).continuousDays >= 1

\* A streak restarted by a submission more than 25 h after the previous one.
C14_Witness ==
    \E p \in Principals :
        /\ Len(accepted[p]) = 2
        /\ ~accepted[p][2].afterReset
        /\ accepted[p][2].time - accepted[p][1].time > 90000
        /\ getUserStatistics(p).continuousDays = 1

\* C15: while the record count of a principal is 0, its total, last score and
\* delta are the zero handle, its history is empty and its lastRecordTime and
\* continuousDays are 0; only an accepted submission of that principal ends
\* this.
C15_EmptyUntilFirstSubmission ==
    /\ [](\A p \in Principals :
             getUserStatistics(p).recordCount = 0
             => userDataMap[p] = EmptyUserData)
    /\ [][\A p \in Principals :
             (userDataMap[p] = EmptyUserData /\ userDataMap'[p] # EmptyUserData)
             => (Submitted(p)' /\ ret'.err = "")]_vars

\* The clock of a principal who never submitted was reset.
C15_Witness ==
    /\ ret.op = "resetUserRecordTime"
    /\ ret.err = ""
    /\ \A p \in Principals : userDataMap[p] = EmptyUserData

\* What a handle stands for, whatever number the coprocessor gave it.
ValueView(cts, h) ==
    IF h = 0 THEN [set |-> FALSE, plain |-> <<>>, acl |-> {}]
    ELSE [set |-> TRUE, plain |-> cts[h].plain, acl |-> cts[h].acl]

\* The UserData of p with every handle replaced by what it stands for.
LedgerView(map, cts, p) ==
    LET ud == map[p]
    IN  [total |-> ValueView(cts, ud.encryptedTotalScore),
         lastScore |-> ValueView(cts, ud.encryptedLastScore),
         change |-> ValueView(cts, ud.encryptedScoreChange),
         totalRecords |-> ud.totalRecords,
         lastRecordTime |-> ud.lastRecordTime,
         continuousDays |-> ud.continuousDays,
         history |-> [i \in 1..Len(ud.historyRecords) |->
                         [score |-> ValueView(cts, ud.historyRecords[i].encryptedScore),
                          recordTime |-> ud.historyRecords[i].recordTime,
                          distanceCategory |-> ud.historyRecords[i].distanceCategory]]]

\* The inputs of one submission.  A rejection for its proof or its category
\* comes before the score is used, so one score stands for all of them there.
SubmissionInputs ==
    {in \in [score : Scores, proofOk : BOOLEAN, category : Categories] :
        (in.proofOk /\ in.category <= MAX_DISTANCE_CATEGORY)
        \/ (in.score = 40 /\ (in.proofOk \/ in.category <= MAX_DISTANCE_CATEGORY))}

\* From the current storage, a submission of p stamped tp then one of q
\* stamped tq (in this block or a day later, one of them in this block) ends as the one of q then the one of p does: same outcomes, same
\* state of every principal.  (Each outcome is bound by a quantifier over a
\* singleton so that it is computed once.)
SubmissionsCommute ==
    \A pair \in {pq \in SUBSET Principals : Cardinality(pq) = 2} :
        LET p == CHOOSE x \in pair : TRUE
            q == CHOOSE x \in pair : x # p
            stamps == {now, now + DAILY_SUBMIT_INTERVAL}
        IN  \A i1 \in SubmissionInputs, i2 \in SubmissionInputs :
            \A tp \in stamps, tq \in stamps :
              (tp = now \/ tq = now) =>
                \A a1 \in {SubmitOutcome(userDataMap, ciphertexts, isTestModeEnabled,
                               tp, p, i1.score, i1.proofOk, i1.category)} :
                \A b1 \in {SubmitOutcome(userDataMap, ciphertexts, isTestModeEnabled,
                               tq, q, i2.score, i2.proofOk, i2.category)} :
                \A a2 \in {SubmitOutcome(a1.map, a1.cts, isTestModeEnabled,
                               tq, q, i2.score, i2.proofOk, i2.category)} :
                \A b2 \in {SubmitOutcome(b1.map, b1.cts, isTestModeEnabled,
                               tp, p, i1.score, i1.proofOk, i1.category)} :
                    /\ a1.err = b2.err
                    /\ a2.err = b1.err
                    /\ \A r \in Principals :
                           LedgerView(a2.map, a2.cts, r) = LedgerView(b2.map, b2.cts, r)

\* C16: a submission of p, accepted or rejected, changes nothing of any other
\* principal q (its UserData and the ciphertexts it reaches), every such step
\* is the transaction function applied to the current storage, and the
\* submissions of two different principals commute.
C16_PrincipalsIndependent ==
    /\ []SubmissionsCommute
    /\ [][\A p \in Principals :
             Submitted(p)' =>
                /\ \A q \in Principals \ {p} :
                      /\ userDataMap'[q] = userDataMap[q]
                      /\ \A h \in EncryptedValues(q) :
                            h # 0 => ciphertexts'[h] = ciphertexts[h]
                /\ \E s \in Scores, ok \in BOOLEAN :
                      LET r == SubmitOutcome(userDataMap, ciphertexts,
                                             isTestModeEnabled, now, p, s, ok,
                                             ret'.category)
                      IN  /\ ret'.err = r.err
                          /\ userDataMap' = r.map
                          /\ ciphertexts' = r.cts]_vars

\* p submitted after q had, in the same block, and q's state is what it was.
C16_Witness ==
    \E p \in Principals : \E q \in Principals \ {p} :
        /\ Submitted(p)
        /\ ret.err = ""
        /\ Len(accepted[p]) = 1
        /\ Len(accepted[q]) = 1
        /\ accepted[q][1].time = now
        /\ userDataMap[q].encryptedLastScore = 1

\* Two well-formed submissions of p, one after the other with nothing in
\* between: the first in this block, the second in this block or half a day
\* later (less than DAILY_SUBMIT_INTERVAL after the first).
SecondStamps == {now, now + 43200}

TwoSubmissions(p, s1, s2, t2) ==
    LET a1 == SubmitOutcome(userDataMap, ciphertexts, isTestModeEnabled, now,
                            p, s1, TRUE, MAX_DISTANCE_CATEGORY)
        a2 == SubmitOutcome(a1.map, a1.cts, isTestModeEnabled, t2,
                            p, s2, TRUE, MAX_DISTANCE_CATEGORY)
    IN  [first |-> a1.err, second |-> a2.err,
         counted |-> a2.map[p].totalRecords - userDataMap[p].totalRecords]

\* C17 as stated: with test mode disabled, of two submissions of the same
\* principal less than 86400 s apart exactly one is accepted, the other fails
\* with "Only one submission per day", and totalRecords grows by exactly 1.
C17_ExactlyOneAccepted ==
    ~isTestModeEnabled =>
        \A p \in Principals : \A s1 \in Scores, s2 \in Scores :
            \A t2 \in SecondStamps :
                LET r == TwoSubmissions(p, s1, s2, t2)
                IN  /\ {r.first, r.second} = {"", ErrTooSoon}
                    /\ r.counted = 1

\* C17: with test mode disabled, of two submissions of the same principal
\* less than 86400 s apart at most one is accepted, a rejected one fails with
\* "Only one submission per day", totalRecords grows by the number accepted,
\* and when the first passes the cadence check it is the one accepted.
C17_AtMostOneAccepted ==
    ~isTestModeEnabled =>
        \A p \in Principals : \A s1 \in Scores, s2 \in Scores :
            \A t2 \in SecondStamps :
                LET r == TwoSubmissions(p, s1, s2, t2)
                IN  /\ {r.first, r.second} \subseteq {"", ErrTooSoon}
                    /\ r.first # "" \/ r.second # ""
                    /\ r.counted = Cardinality({k \in {"first", "second"} : r[k] = ""})
                    /\ CadenceOk(userDataMap[p], FALSE, now) =>
                          (r.first = "" /\ r.second = ErrTooSoon)

\* The second of two same-block submissions of p was just rejected, the first
\* having been accepted with test mode disabled.
C17_Witness ==
    \E p \in Principals :
        /\ Submitted(p)
        /\ ret.err = ErrTooSoon
        /\ ~isTestModeEnabled
        /\ Len(accepted[p]) = 1
        /\ ~accepted[p][1].testMode
        /\ accepted[p][1].time = now

\* What the views show of p after a step that moved its record count is the
\* whole submission: the new record, the clock, the streak, the total, the
\* last score and the delta are those of the submission just accepted.
WholeSubmissionVisible(p) ==
    LET ud == userDataMap[p]
        latest == getLatestRecord(p)'
        stats == getUserStatistics(p)'
        score == Plain(ciphertexts', latest.value.encryptedScore)
    IN  /\ Submitted(p)'
        /\ ret'.err = ""
        /\ stats.recordCount = ud.totalRecords + 1
        /\ getRecordCount(p)' = getRecordCount(p) + 1
        /\ latest.ok
        /\ latest.value.encryptedScore \notin 1..Len(ciphertexts)
        /\ latest.value.recordTime = now
        /\ latest.value.distanceCategory = ret'.category
        /\ stats.lastRecordTime = now
        /\ stats.continuousDays = NextContinuousDays(ud, now)
        /\ userDataMap'[p].encryptedLastScore = latest.value.encryptedScore
        /\ Plain(ciphertexts', getAverageCalculationData(p)'.encryptedTotal)
              = IF ud.totalRecords = 0 THEN score
                ELSE AddWrap(Plain(ciphertexts, ud.encryptedTotalScore), score)
        /\ Plain(ciphertexts', userDataMap'[p].encryptedScoreChange)
              = IF ud.totalRecords = 0 THEN U32(0)
                ELSE SubWrap(score, Plain(ciphertexts, ud.encryptedLastScore))

\* C18: between two states a query can observe, either nothing of a
\* principal's UserData but its lastRecordTime (an administrative reset) has
\* changed, or a whole accepted submission has been applied: no state shows
\* the count incremented with the history, clock, streak, total or delta of
\* before the submission, or the reverse.
C18_ConsistentSnapshot ==
    [][\A p \in Principals :
          \/ userDataMap'[p] = [userDataMap[p] EXCEPT
                                   !.lastRecordTime = userDataMap'[p].lastRecordTime]
                /\ (userDataMap'[p] # userDataMap[p] =>
                       ret'.op = "resetUserRecordTime")
          \/ WholeSubmissionVisible(p)]_vars

\* The second submission of p, a day after the first, has just been accepted.
C18_Witness ==
    \E p \in Principals :
        /\ Submitted(p)
        /\ ret.err = ""
        /\ getUserStatistics(p).recordCount = 2
        /\ getUserStatistics(p).continuousDays = 2
        /\ getUserStatistics(p).lastRecordTime = now
        /\ getLatestRecord(p).value.recordTime = now

IsQuery(call) == call.op \in QueryNames

\* C19: a call of a view function, whether it succeeds or fails, changes no
\* UserData, not the test-mode flag, no ciphertext or ACL grant and emits no
\* event; and the same view called again with the same arguments, nothing
\* else having happened in between, returns what it returned before.
C19_QueriesReadOnly ==
    [][IsQuery(ret') =>
          /\ UNCHANGED <<userDataMap, isTestModeEnabled, contractAdmin,
                         ciphertexts, accepted>>
          /\ events' = <<>>
          /\ (/\ IsQuery(ret)
              /\ ret'.op = ret.op
              /\ ret'.user = ret.user
              /\ ret'.index = ret.index)
             => /\ ret'.result.ok = ret.result.ok
                /\ ret'.result.err = ret.result.err
                /\ ret.result.ok => ret'.result.value = ret.result.value]_vars

\* getRecordByIndex has just failed on a principal who has a record.
C19_Witness ==
    /\ IsQuery(ret)
    /\ ret.op = "getRecordByIndex"
    /\ ret.err = ErrIndex
    /\ userDataMap[ret.user].totalRecords = 1
    /\ ret.index = 1

\* C20: getLatestRecord reverts with "No records" exactly for a principal
\* whose history is empty (who has no accepted submission) and otherwise
\* returns the record of the latest accepted submission, also once the history
\* has overflowed; getRecordByIndex(p, i) reverts with "Index out of bounds"
\* exactly when i >= getRecordCount(p) and succeeds otherwise.
C20_LatestAndIndexErrors ==
    \A p \in Principals :
        LET N == Len(accepted[p])
            latest == getLatestRecord(p)
        IN  /\ (userDataMap[p].historyRecords = <<>>) <=> (N = 0)
            /\ (~latest.ok) <=> (N = 0)
            /\ ~latest.ok => latest.err = ErrNoRecords
            /\ latest.ok => latest.value = SubmittedRecord(p, N)
            /\ \A i \in 0..(DeepSubmissions + 1) :
                  LET r == getRecordByIndex(p, i)
                  IN  /\ (~r.ok) <=> (i >= getRecordCount(p))
                      /\ ~r.ok => r.err = ErrIndex

\* The history has overflowed: the front record is gone, the latest record is
\* that of the last submission and the index just past the end is refused.
C20_Witness ==
    /\ Len(accepted[DeepUser]) > MAX_HISTORY_RECORDS
    /\ userDataMap[DeepUser].historyRecords[1] = ZeroRecord
    /\ getLatestRecord(DeepUser).ok
    /\ getLatestRecord(DeepUser).value.recordTime = now
    /\ ~getRecordByIndex(DeepUser, getRecordCount(DeepUser)).ok
    /\ ~getLatestRecord(Deployer).ok

\* C21: the wallet is asked once per validity window: after a signature
\* request that was signed, no further request is put to the wallet before
\* the authorization it produced has expired, whether the next loadOrSign
\* call comes from the same flow or from a later action of the user.
C21_OneRequestPerWindow ==
    \A i \in 1..Len(signRequests) : \A j \in 1..Len(signRequests) :
        (i < j /\ signRequests[i].state = "signed")
            => signRequests[j].issuedAt >= signRequests[i].issuedAt + ValidDuration

Outstanding(requests) ==
    Cardinality({i \in 1..Len(requests) : requests[i].state = "pending"})

\* C22: at most one signature request is with the wallet at any time; a flow
\* that calls loadOrSign while one is outstanding issues no request of its own
\* and awaits that one, and every awaiting flow awaits the outstanding request.
C22_OneOutstandingRequest ==
    /\ [](/\ Outstanding(signRequests) <= 1
          /\ \A page \in Pages :
                runs[page].pc = "await" =>
                    /\ runs[page].req \in 1..Len(signRequests)
                    /\ signRequests[runs[page].req].state = "pending")
    /\ [][\A page \in Pages :
             (/\ Outstanding(signRequests) = 1
              /\ runs[page].pc = "sign"
              /\ runs'[page].pc = "await")
             => signRequests' = signRequests]_vars

\* Two pages await the one request that is with the wallet.
C22_Witness ==
    \E p \in Pages : \E q \in Pages \ {p} :
        /\ runs[p].pc = "await"
        /\ runs[q].pc = "await"
        /\ runs[p].req = runs[q].req
        /\ Len(signRequests) = 1
        /\ Outstanding(signRequests) = 1

\* Request i is declined in this step.
DeclinedNow(i) ==
    /\ i \in 1..Len(signRequests)
    /\ signRequests[i].state = "pending"
    /\ signRequests'[i].state = "declined"

Returned(page) ==
    /\ runs[page].pc \in {"sign", "await"}
    /\ runs'[page].pc = "decrypt"

\* C24 as stated: whenever loadOrSign returns an authorization, cached or
\* freshly signed, it has not expired.
C24_NeverExpiredOnReturn ==
    [][\A page \in Pages :
          Returned(page) => Unexpired(runs'[page].sig, now)]_vars

\* C24: loadOrSign returns the cached authorization only while
\* now < issuedAt + ValidDuration, and that one has not expired; when the
\* cached one has expired the flow awaits a request with another key pair
\* (every request is issued at the time it is built), and the authorization
\* signed for it replaces the cached entry; a freshly signed authorization has
\* not expired when it is returned if the wallet answered less than
\* ValidDuration after the request was built.
C24_ExpiryOfCache ==
    [][\A page \in Pages :
          LET r == runs[page]
              rr == runs'[page]
          IN  /\ (r.pc = "sign" /\ rr.pc = "decrypt")
                 => /\ rr.sig = r.storage
                    /\ now < r.storage.issuedAt + ValidDuration
              /\ (r.pc = "sign" /\ rr.pc # "sign"
                  /\ r.storage # Null /\ now >= r.storage.issuedAt + ValidDuration)
                 => /\ rr.pc = "await"
                    /\ signRequests'[rr.req].state = "pending"
                    /\ signRequests'[rr.req].keyPair # r.storage.keyPair
              /\ Len(signRequests') > Len(signRequests)
                 => /\ signRequests'[Len(signRequests')].issuedAt = now
                    /\ \A i \in 1..Len(signRequests) :
                          signRequests[i].keyPair
                              # signRequests'[Len(signRequests')].keyPair
              /\ (r.pc = "await" /\ rr.pc = "decrypt")
                 => /\ rr.sig = Authorization(signRequests, r.req)
                    /\ rr.storage = rr.sig
                    /\ (now < signRequests[r.req].issuedAt + ValidDuration)
                          => Unexpired(rr.sig, now)]_vars

\* The Dashboard's second loadOrSign call found the authorization of its
\* first one expired, and the new one has replaced it in the storage.
C24_Witness ==
    LET r == runs["Dashboard"]
    IN  /\ r.pc = "decrypt"
        /\ Len(r.shown) = 1
        /\ Len(signRequests) = 2
        /\ signRequests[1].state = "signed"
        /\ r.storage = Authorization(signRequests, 2)
        /\ r.sig = r.storage
        /\ Unexpired(r.sig, now)
        /\ ~Unexpired(Authorization(signRequests, 1), now)

\* C25: for every userDecrypt request of a flow, the value the page holds for
\* that item is the plaintext when the request succeeded and the unreadable
\* marker (null, which no plaintext equals) when it failed; a failure is never
\* held as a score.
C25_FailuresPerHandle ==
    \A page \in Pages :
        \A k \in 1..Len(decryptRequests[page]) :
            LET q == decryptRequests[page][k]
                held == runs[page].shown[q.item]
            IN  /\ q.ok => held = Plain(ciphertexts, q.handles[1])
                /\ ~q.ok => held = NoScore

\* C26: the values a flow decrypts under one authorization go to the relayer
\* in one userDecrypt request: no two requests of a flow carry the same
\* authorization, and a flow that has decrypted all its k values under one
\* authorization has sent one request with k handles.
C26_OneBatchedRequest ==
    \A page \in Pages :
        LET reqs == decryptRequests[page]
        IN  /\ \A j \in 1..Len(reqs) : \A k \in 1..Len(reqs) :
                   j # k => reqs[j].keyPair # reqs[k].keyPair
            /\ (/\ runs[page].pc = "done"
                /\ Len(reqs) >= 1
                /\ \A k \in 1..Len(reqs) : reqs[k].keyPair = reqs[1].keyPair)
               => (Len(reqs) = 1 /\ Len(reqs[1].handles) = Len(runs[page].items))

\* C27: recordDriveScore checks the proof first, then the category, then the
\* cadence: a call with an invalid proof reverts with InvalidProof whatever
\* its category and the time since the last submission, a call with a valid
\* proof and distanceCategory > 3 reverts with the category error even when
\* it is also too soon, and every stored record has a category in 0..3.
C27_ValidationOrder ==
    /\ [](\A p \in Principals :
            \A k \in 1..Len(userDataMap[p].historyRecords) :
                userDataMap[p].historyRecords[k].distanceCategory
                    \in 0..MAX_DISTANCE_CATEGORY)
    /\ [][\A p \in Principals :
            Submitted(p)' =>
                \A s \in Scores :
                    /\ recordDriveScore(p, s, FALSE, ret'.category)
                           => ret'.err = ErrInvalidProof
                    /\ ( /\ ret'.category > MAX_DISTANCE_CATEGORY
                         /\ recordDriveScore(p, s, TRUE, ret'.category) )
                           => ret'.err = ErrInvalidCategory]_vars

C27_Witness ==
    \E p \in Principals :
        /\ Submitted(p)
        /\ ret.category > MAX_DISTANCE_CATEGORY
        /\ ret.err = ErrInvalidCategory
        /\ userDataMap[p].totalRecords = 1
        /\ ~CadenceOk(userDataMap[p], isTestModeEnabled, now)

\* C28: an accepted recordDriveScore emits exactly one ScoreRecorded event
\* (sender, block time, distanceCategory), and a ContinuousDaysChanged event
\* (sender, continuousDays) if and only if continuousDays is above 1 after the
\* streak update; a rejected recordDriveScore emits nothing.
EventsNamed(name) == {i \in 1..Len(events) : events[i].name = name}

C28_SubmissionEvents ==
    \A p \in Principals :
        Submitted(p) =>
            IF ret.err # "" THEN events = <<>>
            ELSE /\ Cardinality(EventsNamed("ScoreRecorded")) = 1
                 /\ \A i \in EventsNamed("ScoreRecorded") :
                        /\ events[i].user = p
                        /\ events[i].time = now
                        /\ events[i].category = ret.category
                 /\ Cardinality(EventsNamed("ContinuousDaysChanged"))
                        = IF userDataMap[p].continuousDays > 1 THEN 1 ELSE 0
                 /\ \A i \in EventsNamed("ContinuousDaysChanged") :
                        /\ events[i].user = p
                        /\ events[i].days = userDataMap[p].continuousDays
                 /\ Len(events) = Cardinality(EventsNamed("ScoreRecorded"))
                                  + Cardinality(EventsNamed("ContinuousDaysChanged"))

C28_Witness ==
    \E p \in Principals :
        /\ Submitted(p)
        /\ ret.err = ""
        /\ userDataMap[p].continuousDays = 2
        /\ Len(events) = 2

\* The handles of the four values an accepted submission of p leaves current:
\* the new record's score, the total, the delta and the last score.
CurrentValues(ud) ==
    {ud.historyRecords[Len(ud.historyRecords)].encryptedScore,
     ud.encryptedTotalScore, ud.encryptedScoreChange, ud.encryptedLastScore}

\* C29: every accepted recordDriveScore of p grants the contract and p on the
\* handles that are current after it (new score, total, delta, last score),
\* whose values are the final ones of the call, and on no other handle; the
\* grants are made on every submission, so after a later submission the
\* handles it made current are granted and p decrypts them.
C29_GrantsOnFinalValues ==
    [][\A p \in Principals :
         (Submitted(p)' /\ ret'.err = "") =>
             LET ud == userDataMap'[p]
                 a == accepted'[p][Len(accepted'[p])]
             IN  /\ \A h \in CurrentValues(ud) :
                        /\ h \in 1..Len(ciphertexts')
                        /\ {Ledger, p} \subseteq ciphertexts'[h].acl
                 /\ \A h \in 1..Len(ciphertexts) :
                        ciphertexts'[h].acl # ciphertexts[h].acl
                            => h \in CurrentValues(ud)
                 /\ UserDecrypt(ciphertexts', ud.encryptedLastScore, p) = U32(a.score)
                 /\ UserDecrypt(ciphertexts', ud.encryptedTotalScore, p)
                        = AddWrap(Plain(ciphertexts, userDataMap[p].encryptedTotalScore),
                                  U32(a.score))
                 /\ UserDecrypt(ciphertexts', ud.encryptedScoreChange, p)
                        = IF userDataMap[p].totalRecords = 0 THEN U32(0)
                          ELSE SubWrap(U32(a.score),
                                       Plain(ciphertexts, userDataMap[p].encryptedLastScore))]_vars

C29_Witness ==
    \E p \in Principals :
        /\ Submitted(p)
        /\ ret.err = ""
        /\ userDataMap[p].totalRecords = 2
        /\ Cardinality(CurrentValues(userDataMap[p])) = 3
        /\ \A h \in CurrentValues(userDataMap[p]) :
               UserDecrypt(ciphertexts, h, p) # Denied

\* C30: while test mode is enabled a recordDriveScore with a valid proof and a
\* category of at most 3 is accepted whatever the time since the sender's last
\* submission, and its other steps are those of a call without test mode: the
\* count grows by one, the time is stamped, the streak follows the 25-hour
\* rule, the record is appended, the total grows by the score, the grants are
\* made, and where the call would also be accepted without test mode the
\* storage it leaves is the same.
C30_BypassOnlySkipsCadence ==
    [][\A p \in Principals :
         (Submitted(p)' /\ isTestModeEnabled /\ ret'.category <= MAX_DISTANCE_CATEGORY) =>
             /\ ret'.err = ""
             /\ LET ud == userDataMap[p]
                    new == userDataMap'[p]
                    a == accepted'[p][Len(accepted'[p])]
                    plainly == SubmitOutcome(userDataMap, ciphertexts, FALSE, now,
                                             p, a.score, TRUE, ret'.category)
                IN  /\ new.totalRecords = ud.totalRecords + 1
                    /\ new.lastRecordTime = now
                    /\ new.continuousDays =
                           IF ud.lastRecordTime # 0
                              /\ now - ud.lastRecordTime
                                     < DAILY_SUBMIT_INTERVAL + GRACE_SECONDS
                           THEN ud.continuousDays + 1
                           ELSE 1
                    /\ new.historyRecords =
                           Append(ud.historyRecords,
                                  DriveRecord(new.encryptedLastScore, now, ret'.category))
                    /\ UserDecrypt(ciphertexts', new.encryptedLastScore, p) = U32(a.score)
                    /\ UserDecrypt(ciphertexts', new.encryptedTotalScore, p)
                           = AddWrap(Plain(ciphertexts, ud.encryptedTotalScore),
                                     U32(a.score))
                    /\ UserDecrypt(ciphertexts', new.encryptedScoreChange, p)
                           = IF ud.totalRecords = 0 THEN U32(0)
                             ELSE SubWrap(U32(a.score),
                                          Plain(ciphertexts, ud.encryptedLastScore))
                    /\ plainly.err \in {"", ErrTooSoon}
                    /\ plainly.err = "" =>
                           /\ userDataMap' = plainly.map
                           /\ ciphertexts' = plainly.cts]_vars

C30_Witness ==
    \E p \in Principals :
        /\ Submitted(p)
        /\ ret.err = ""
        /\ isTestModeEnabled
        /\ Len(accepted[p]) = 2
        /\ accepted[p][1].testMode
        /\ accepted[p][2].testMode
        /\ accepted[p][1].time = accepted[p][2].time
        /\ userDataMap[p].continuousDays = 2
        /\ Len(userDataMap[p].historyRecords) = 2

\* C31 as claimed: whenever p has an accepted submission, lastRecordTime of p
\* is non-zero and is the recordTime of getLatestRecord(p); it is 0 only for a
\* principal who has never submitted.
C31_LastTimeIsLatestRecord ==
    \A p \in Principals :
        /\ userDataMap[p].totalRecords >= 1 =>
               /\ userDataMap[p].lastRecordTime # 0
               /\ getLatestRecord(p).ok
               /\ userDataMap[p].lastRecordTime = getLatestRecord(p).value.recordTime
        /\ userDataMap[p].lastRecordTime = 0 => Len(accepted[p]) = 0

\* A successful resetUserRecordTime step.
ClockReset == ret'.op = "resetUserRecordTime" /\ ret'.err = ""

\* C31: whenever p has an accepted submission, getLatestRecord(p) returns a
\* record with a non-zero recordTime and lastRecordTime of p is either that
\* time or 0; every accepted submission leaves it at that time, and it becomes
\* 0 only by a successful resetUserRecordTime, so it is 0 only for a principal
\* who has never submitted or whose clock was reset since the last accepted
\* submission.
C31_LastTimeUnlessReset ==
    /\ [](\A p \in Principals :
            userDataMap[p].totalRecords >= 1 =>
                /\ getLatestRecord(p).ok
                /\ getLatestRecord(p).value.recordTime # 0
                /\ userDataMap[p].lastRecordTime
                       \in {0, getLatestRecord(p).value.recordTime})
    /\ [](\A p \in Principals :
            userDataMap[p].totalRecords = 0 => userDataMap[p].lastRecordTime = 0)
    /\ [][\A p \in Principals :
            /\ (Submitted(p)' /\ ret'.err = "") =>
                   userDataMap'[p].lastRecordTime = getLatestRecord(p)'.value.recordTime
            /\ (userDataMap[p].lastRecordTime # 0 /\ userDataMap'[p].lastRecordTime = 0)
                   => ClockReset
            /\ (userDataMap[p].lastRecordTime = 0 /\ userDataMap'[p].lastRecordTime # 0)
                   => (Submitted(p)' /\ ret'.err = "")]_vars

C31_Witness ==
    \E p \in Principals :
        /\ ret.op = "resetUserRecordTime"
        /\ ret.err = ""
        /\ userDataMap[p].totalRecords = 1
        /\ userDataMap[p].lastRecordTime = 0
        /\ getLatestRecord(p).value.recordTime = GenesisTime + DAILY_SUBMIT_INTERVAL

\* C32: a successful resetUserRecordTime(u) sets lastRecordTime of u to 0 and
\* changes nothing else: the count, the streak, the total, the last score, the
\* delta and the history of u, the UserData of every other principal, the
\* test-mode flag, the administrator and every ciphertext and ACL stay as they
\* were.
C32_ResetFrame ==
    [][ClockReset =>
          /\ \E u \in Principals :
                 userDataMap' = [userDataMap EXCEPT ![u].lastRecordTime = 0]
          /\ isTestModeEnabled' = isTestModeEnabled
          /\ contractAdmin' = contractAdmin
          /\ ciphertexts' = ciphertexts]_vars

C32_Witness ==
    /\ ret.op = "resetUserRecordTime"
    /\ ret.err = ""
    /\ \E u \in Principals : \E q \in Principals \ {u} :
           /\ userDataMap[u].lastRecordTime = 0
           /\ userDataMap[u].totalRecords = 1
           /\ userDataMap[u].continuousDays = 1
           /\ Len(userDataMap[u].historyRecords) = 1
           /\ UserDecrypt(ciphertexts, userDataMap[u].encryptedTotalScore, u) # Denied
           /\ userDataMap[q].totalRecords = 1
           /\ userDataMap[q].lastRecordTime # 0

\* C33: continuousDays of a principal never exceeds its totalRecords, whatever
\* the interleaving of submissions (in and out of test mode), test-mode
\* toggles and clock resets.
C33_StreakAtMostCount ==
    \A p \in Principals :
        userDataMap[p].continuousDays <= userDataMap[p].totalRecords

\* Two submissions of one principal in the same block under test mode: the
\* streak has grown with each of them.
C33_Witness ==
    \E p \in Principals :
        /\ userDataMap[p].totalRecords = 2
        /\ userDataMap[p].continuousDays = 2
        /\ accepted[p][1].time = accepted[p][2].time

\* C35: the Submit page never sends an out-of-range score: every score handed
\* to the encryption, every score of a submitScore call in progress and every
\* score the ledger accepted from the page is within 0..100.
C35_NoOutOfRangeScore ==
    /\ \A s \in submit.encrypted : s \in 0..100
    /\ \A i \in 1..Len(submit.flows) : submit.flows[i].score \in 0..100
    /\ \A p \in Principals : \A k \in 1..Len(accepted[p]) :
          accepted[p][k].score \in 0..100

\* The button was pressed with 101 entered, after a score had been submitted.
C35_Witness ==
    /\ submit.score = 101
    /\ submit.message = Message("error", "SCORE_OUT_OF_RANGE [0-100]")
    /\ submit.encrypted # {}
    /\ accepted[WalletUser] # <<>>

\* C36: the Submit page's flow: once no submitScore call is in progress
\* isSubmitting is false again; at most one call is in progress at a time,
\* and only while isSubmitting is true; and the success message appears only
\* in the step in which the wait for a confirmed transaction returns.
C36_SubmitFlow ==
    /\ [](submit.isSubmitting <=> submit.flows # <<>>)
    /\ [](Len(submit.flows) <= 1)
    /\ [][submit'.message.type = "success" /\ submit.message.type # "success"
          => \E i \in 1..Len(submit.flows) :
                /\ submit.flows[i].pc = "confirmed"
                /\ submit'.flows = Without(submit.flows, i)]_vars

\* A submission was confirmed and announced after an earlier one had failed
\* on its way, and the button is enabled again.
C36_Witness ==
    /\ submit.message.type = "success"
    /\ ~submit.isSubmitting
    /\ submit.flows = <<>>
    /\ Len(accepted[WalletUser]) = 1
    /\ Cardinality(submit.encrypted) = 2

\* The step in which decryptAndLoadStats ends.
DashboardFlowEnds ==
    /\ runs["Dashboard"].pc \in {"done", "failed"}
    /\ runs'["Dashboard"].pc = "idle"

\* C37: the Dashboard enters its decrypted state only if every value its flow
\* requested was decrypted: a flow that ends with a value left null (signature
\* declined, decrypt call failed) leaves isDecrypted false.
C37_DecryptedOnlyIfAll ==
    [][DashboardFlowEnds /\ dashboard'.isDecrypted
       => \A k \in 1..Len(runs["Dashboard"].items) :
             /\ k <= Len(runs["Dashboard"].shown)
             /\ runs["Dashboard"].shown[k] # NoScore]_vars

\* C38: the Dashboard never issues a getScoreTrend call that the ledger
\* rejects (its flow never lands in the catch of that call), and it divides
\* the decrypted total only by a count >= 1.
C38_NoRejectedTrendCall ==
    /\ runs["Dashboard"].pc # "failed"
    /\ dashboard.averageScore # NoScore => dashboard.averageScore.count >= 1

\* C39: while isConnected is true the signer belongs to accounts[0] (also
\* after an accountsChanged event), and with an empty account list
\* isConnected is false.
C39_SignerOfSelectedAccount ==
    /\ wallet.isConnected
          => wallet.accounts # <<>> /\ wallet.signer = wallet.accounts[1]
    /\ wallet.accounts = <<>> => ~wallet.isConnected

====
